---- MODULE Spec2Model ----
(***************************************************************************)
(* Breakout scanner of src/main.py: the classifier identify_breakout, the  *)
(* connector's get_historical_data, the instrument lookup and the          *)
(* orchestration loop scan_for_breakouts with its retry/backoff policy.    *)
(*                                                                         *)
(* Prices and volumes are integers (prices in the smallest currency unit). *)
(* A rolling mean is kept as an exact fraction [num, den]; a comparison    *)
(* with it is done by cross-multiplication.                                *)
(* Timestamps are day ordinals >= 1; the ordinal 0 stands for a timestamp  *)
(* string that pd.to_datetime cannot parse.                                *)
(***************************************************************************)
EXTENDS Integers, Sequences, FiniteSets, TLC

VARIABLES symbols, connector, i, pc, attempt, delay, breakout_stocks, data, df, calls, result,
          summary, series, lookback_in, outcome, first_outcome, cpc

\* The scan and the summary main makes of its result.
scanvars == <<symbols, connector, i, pc, attempt, delay, breakout_stocks, data, df, calls, result,
              summary>>

\* A direct call of identify_breakout: its arguments and what it returned.
clsvars == <<series, lookback_in, outcome, first_outcome, cpc>>

vars == <<scanvars, clsvars>>

\* Longest symbol list handed to scan_for_breakouts.
MaxSymbols == 2

\* Longest candle series handed directly to identify_breakout.
MaxCandles == 3

\* identify_breakout(df, symbol, lookback=20)
DefaultLookback == 20
\* df['tr'].rolling(window=14, min_periods=1)
ATRWindow == 14
\* for _ in range(3)
MaxAttempts == 3
\* delay = 1
InitialDelay == 1
\* delay *= 2
BackoffFactor == 2

None == "None"

Max(a, b) == IF a >= b THEN a ELSE b

Abs(a) == IF a >= 0 THEN a ELSE 0 - a

RECURSIVE SumRange(_, _, _)
SumRange(f, a, b) == IF a > b THEN 0 ELSE f[b] + SumRange(f, a, b - 1)

(***************************************************************************)
(* InstrumentManager.get_symbol_token on the list form of the instrument   *)
(* master: the token of the first instrument with that symbol, else None.  *)
(***************************************************************************)
instruments ==
  << [symbol |-> "A-EQ", token |-> "11"],
     [symbol |-> "B-EQ", token |-> "22"],
     [symbol |-> "A-EQ", token |-> "99"] >>

Symbols == {"A-EQ", "B-EQ", "X-EQ"}

get_symbol_token(symbol) ==
  LET hits == {k \in 1..Len(instruments) : instruments[k].symbol = symbol}
  IN IF hits = {} THEN None
     ELSE instruments[CHOOSE k \in hits : \A j \in hits : k <= j].token

\* The test of the token left out.
Truthy_Always(token) == TRUE

\* `if symbol_token:`
Truthy(token) == token \notin {None, ""}

(***************************************************************************)
(* Candle rows as the brokerage API returns them (open is never read by    *)
(* the classifier and is left out).                                        *)
(***************************************************************************)
Candle(t, h, l, c, v) ==
  [timestamp |-> t, high |-> h, low |-> l, close |-> c, volume |-> v]

\* n daily candles: n-1 with high 10, low lo, close 10, volume 2, then a last
\* candle closing at c (its high) with low 10 and volume v.
Series(n, lo, c, v) ==
  [k \in 1..n |-> IF k < n THEN Candle(k, 10, lo, 10, 2) ELSE Candle(k, c, 10, c, v)]

Reversed(s) == [k \in 1..Len(s) |-> s[Len(s) + 1 - k]]

BadTimestamp(s) == [k \in 1..Len(s) |-> IF k = 1 THEN [s[k] EXCEPT !.timestamp = 0] ELSE s[k]]

CandleLists ==
  { Series(DefaultLookback - 1, 10, 12, 4),
    Series(DefaultLookback, 10, 10, 4),
    Series(DefaultLookback, 0, 12, 4),
    Series(DefaultLookback, 10, 12, 2),
    Reversed(Series(DefaultLookback, 10, 12, 4)),
    BadTimestamp(Series(DefaultLookback, 10, 12, 4)) }

\* What self.api.getCandleData(params) does: raise, or return a payload.
ApiResponses ==
  { [kind |-> "raise"], [kind |-> "no_data_key"], [kind |-> "data_not_list"],
    [kind |-> "list", rows |-> << >>] }
  \cup { [kind |-> "list", rows |-> r] : r \in CandleLists }

TransientFailures == {"raise", "no_data_key", "data_not_list"}

(***************************************************************************)
(* identify_breakout                                                       *)
(***************************************************************************)
NaN == [nan |-> TRUE, val |-> 0]

Num(x) == [nan |-> FALSE, val |-> x]

\* df.sort_values('timestamp'): ascending, rows of equal timestamp in input order.
RECURSIVE SortPrefix(_, _)
SortPrefix(rows, n) ==
  IF n = 0 THEN << >>
  ELSE LET s == SortPrefix(rows, n - 1)
           c == rows[n]
           k == Cardinality({j \in 1..Len(s) : s[j].timestamp <= c.timestamp})
       IN SubSeq(s, 1, k) \o << c >> \o SubSeq(s, k + 1, Len(s))

sort_values_InputOrder(rows) == rows

sort_values(rows) == SortPrefix(rows, Len(rows))

\* The window ends one row later and takes in the row after pos.
rolling_max_high_ThroughNext(s, pos, window) ==
  LET lo == Max(1, pos - window + 2)
  IN CHOOSE m \in {s[k].high : k \in lo..(pos + 1)} : \A k \in lo..(pos + 1) : s[k].high <= m

\* df['high'].rolling(window, min_periods=1).max() at position pos
rolling_max_high(s, pos, window) ==
  LET lo == Max(1, pos - window + 1)
  IN CHOOSE m \in {s[k].high : k \in lo..pos} : \A k \in lo..pos : s[k].high <= m

\* df['tr'] at position k: the shifted close of the first row is NaN and
\* np.maximum propagates it.
true_range(s, k) ==
  IF k = 1 THEN NaN
  ELSE Num(Max(s[k].high - s[k].low,
               Max(Abs(s[k].high - s[k - 1].close), Abs(s[k].low - s[k - 1].close))))

\* df['tr'].rolling(window=14, min_periods=1).mean() at the last position:
\* the mean of the non-NaN values in the window.
rolling_mean_tr(s) ==
  LET n == Len(s)
      lo == Max(1, n - ATRWindow + 1)
      tr == [k \in 1..n |-> true_range(s, k)]
      val == [k \in 1..n |-> IF tr[k].nan THEN 0 ELSE tr[k].val]
      cnt == Cardinality({k \in lo..n : ~tr[k].nan})
  IN IF cnt = 0 THEN NaN ELSE [nan |-> FALSE, num |-> SumRange(val, lo, n), den |-> cnt]

\* df['volume'].rolling(window=lookback, min_periods=1).mean().iloc[-1]
rolling_mean_volume(s, lookback) ==
  LET n == Len(s)
      lo == Max(1, n - lookback + 1)
      vol == [k \in 1..n |-> s[k].volume]
  IN [num |-> SumRange(vol, lo, n), den |-> n - lo + 1]

Returned_AlwaysBreakout(is_breakout, breakout_type, details) ==
  [raised |-> FALSE, is_breakout |-> TRUE, breakout_type |-> breakout_type,
   details |-> details]

Returned(is_breakout, breakout_type, details) ==
  [raised |-> FALSE, is_breakout |-> is_breakout, breakout_type |-> breakout_type,
   details |-> details]

Raised == [raised |-> TRUE]

NoDetails == [k \in {} |-> 0]

SizeSignificant_Inclusive(breakout_size, atr) ==
  ~atr.nan /\ breakout_size * atr.den >= atr.num

\* breakout_size > atr
SizeSignificant(breakout_size, atr) ==
  ~atr.nan /\ breakout_size * atr.den > atr.num

\* current_volume > 1.5 * avg_volume
VolumeSignificant(current_volume, avg_volume) ==
  2 * current_volume * avg_volume.den > 3 * avg_volume.num

identify_breakout(rows, lookback) ==
  IF Len(rows) < lookback THEN Returned(FALSE, "Insufficient Data", NoDetails)
  ELSE IF \E k \in 1..Len(rows) : rows[k].timestamp = 0 THEN Raised
  ELSE IF Len(rows) < 2 THEN Raised
  ELSE
    LET s == sort_values(rows)
        n == Len(s)
        current_close == s[n].close
        previous_high == rolling_max_high(s, n - 1, lookback)
    IN IF current_close > previous_high
       THEN LET atr == rolling_mean_tr(s)
                breakout_size == current_close - previous_high
                avg_volume == rolling_mean_volume(s, lookback)
                current_volume == s[n].volume
                details == [current_close |-> current_close,
                            previous_high |-> previous_high,
                            breakout_size |-> breakout_size,
                            atr |-> atr,
                            current_volume |-> current_volume,
                            avg_volume |-> avg_volume]
            IN IF SizeSignificant(breakout_size, atr)
               THEN IF VolumeSignificant(current_volume, avg_volume)
                    THEN Returned(TRUE, "Full Breakout", details)
                    ELSE Returned(TRUE, "Partial Breakout - Low Volume", details)
               ELSE Returned(TRUE, "Partial Breakout - Small Size", details)
       ELSE Returned(FALSE, "No Breakout", NoDetails)

(***************************************************************************)
(* The fetch: connector.get_historical_data as scan_for_breakouts calls it *)
(***************************************************************************)
NoFrame == [kind |-> "None", rows |-> << >>]

Unbound == [kind |-> "unbound", rows |-> << >>]

DataFrame(rows) == [kind |-> "DataFrame", rows |-> rows]

NoResponse == [kind |-> "unbound"]

\* AngelOneConnector.get_historical_data: every failure is logged and
\* turned into None; nothing is raised to the caller.
get_historical_data(resp) ==
  IF resp.kind = "raise" THEN [raised |-> FALSE, df |-> NoFrame]
  ELSE IF resp.kind \in {"no_data_key", "data_not_list"} THEN [raised |-> FALSE, df |-> NoFrame]
  ELSE IF resp.rows = << >> THEN [raised |-> FALSE, df |-> NoFrame]
  ELSE [raised |-> FALSE, df |-> DataFrame(resp.rows)]

\* The fetch collaborator of the spec's section 6, as the retry scenarios
\* stub it: a transport or format error is raised to the caller and an
\* upstream answer without data is an empty series.
fetch(resp) ==
  IF resp.kind \in TransientFailures THEN [raised |-> TRUE, df |-> Unbound]
  ELSE [raised |-> FALSE, df |-> DataFrame(resp.rows)]

ConnectorKinds == {"AngelOneConnector", "HistoricalFetcher"}

\* connector.get_historical_data(symbol_token, "ONE_DAY", from, to)
connector_get_historical_data(kind, resp) ==
  IF kind = "AngelOneConnector" THEN get_historical_data(resp) ELSE fetch(resp)

\* `df is not None and not df.empty`
HasData(frame) == frame.kind = "DataFrame" /\ frame.rows # << >>

\* {"symbol": symbol, "breakout_type": breakout_type, **details}
BreakoutRecord(symbol, breakout_type, details) ==
  details @@ [symbol |-> symbol, breakout_type |-> breakout_type]

\* The record of a breakout is appended twice.
Appended_Twice(symbol, verdict) ==
  IF ~verdict.raised /\ verdict.is_breakout
  THEN << BreakoutRecord(symbol, verdict.breakout_type, verdict.details),
          BreakoutRecord(symbol, verdict.breakout_type, verdict.details) >>
  ELSE << >>

\* Every verdict is kept, the test of is_breakout left out.
Appended_Always(symbol, verdict) ==
  << BreakoutRecord(symbol, verdict.breakout_type, verdict.details) >>

\* `if is_breakout:` breakout_stocks.append(...)
Appended(symbol, verdict) ==
  IF verdict.is_breakout
  THEN << BreakoutRecord(symbol, verdict.breakout_type, verdict.details) >>
  ELSE << >>

\* A fetch without data is treated as a failure of the attempt.
try_body_NoDataRaises(kind, resp, symbol, old_df) ==
  LET fetched == connector_get_historical_data(kind, resp)
  IN IF fetched.raised THEN [raised |-> TRUE, df |-> old_df, appended |-> << >>]
     ELSE IF HasData(fetched.df)
          THEN LET verdict == identify_breakout(fetched.df.rows, DefaultLookback)
               IN IF verdict.raised
                  THEN [raised |-> TRUE, df |-> fetched.df, appended |-> << >>]
                  ELSE [raised |-> FALSE, df |-> fetched.df,
                        appended |-> Appended(symbol, verdict)]
          ELSE [raised |-> TRUE, df |-> fetched.df, appended |-> << >>]

\* The body of the try statement for one attempt: what it raises or appends.
try_body(kind, resp, symbol, old_df) ==
  LET fetched == connector_get_historical_data(kind, resp)
  IN IF fetched.raised THEN [raised |-> TRUE, df |-> old_df, appended |-> << >>]
     ELSE IF HasData(fetched.df)
          THEN LET verdict == identify_breakout(fetched.df.rows, DefaultLookback)
               IN IF verdict.raised
                  THEN [raised |-> TRUE, df |-> fetched.df, appended |-> << >>]
                  ELSE [raised |-> FALSE, df |-> fetched.df,
                        appended |-> Appended(symbol, verdict)]
          ELSE [raised |-> FALSE, df |-> fetched.df, appended |-> << >>]

\* A backoff that grows by a fixed step instead of doubling.
Backoff_Additive(d) == d + BackoffFactor

\* delay *= 2
Backoff(d) == d * BackoffFactor

\* An off-by-one in the attempt budget.
MoreAttempts_OneMore(done) == done <= MaxAttempts

\* `for _ in range(3)`: whether the loop has another iteration to run
MoreAttempts(done) == done < MaxAttempts

\* The last failure is re-raised to the caller instead of being dropped.
AfterFailure_Reraise(done) == IF done < MaxAttempts THEN "fetch" ELSE "raised"

\* Where control goes after the except handler: the next iteration, or, the
\* range being used up, the loop's else clause and on to the sleep after it.
AfterFailure(done) == IF MoreAttempts(done) THEN "fetch" ELSE "sleep"

(***************************************************************************)
(* main's summary of the scan's result                                     *)
(***************************************************************************)
\* The category strings as words: str.startswith is decided on them (the
\* prefix asked for ends at a word boundary of every category).
Words(text) ==
  CASE text = "Full Breakout" -> << "Full", "Breakout" >>
    [] text = "Partial Breakout" -> << "Partial", "Breakout" >>
    [] text = "Partial Breakout - Low Volume" -> << "Partial", "Breakout", "-", "Low", "Volume" >>
    [] text = "Partial Breakout - Small Size" -> << "Partial", "Breakout", "-", "Small", "Size" >>
    [] text = "No Breakout" -> << "No", "Breakout" >>
    [] text = "Insufficient Data" -> << "Insufficient", "Data" >>

\* text.startswith(prefix)
startswith(text, prefix) ==
  LET w == Words(text)
      p == Words(prefix)
  IN Len(p) <= Len(w) /\ SubSeq(w, 1, Len(p)) = p

\* Only the two-word category itself counts as partial.
partial_breakouts_ExactMatch(stocks) ==
  SelectSeq(stocks, LAMBDA stock : stock.breakout_type = "Partial Breakout")

\* [stock for stock in breakout_stocks if stock['breakout_type'] == "Full Breakout"]
full_breakouts(stocks) ==
  SelectSeq(stocks, LAMBDA stock : stock.breakout_type = "Full Breakout")

\* [... if stock['breakout_type'].startswith("Partial Breakout")]
partial_breakouts(stocks) ==
  SelectSeq(stocks, LAMBDA stock : startswith(stock.breakout_type, "Partial Breakout"))

NoSummary == [full |-> << >>, partial |-> << >>]

Pending == [raised |-> FALSE, breakout_type |-> "pending"]

(***************************************************************************)
(* scan_for_breakouts as a state machine.  calls is the sequence of calls  *)
(* the scan has made to its collaborators and to time.sleep.               *)
(***************************************************************************)
Call(op, pos, arg, raised) == [op |-> op, pos |-> pos, arg |-> arg, raised |-> raised]

SymbolLists == UNION { [1..n -> Symbols] : n \in 0..MaxSymbols }

Init ==
  /\ symbols \in SymbolLists
  /\ connector \in ConnectorKinds
  /\ i = 1
  /\ pc = IF symbols = << >> THEN "return" ELSE "lookup"
  /\ attempt = 0
  /\ delay = InitialDelay
  /\ breakout_stocks = << >>
  /\ data = NoResponse
  /\ df = Unbound
  /\ calls = << >>
  /\ result = << >>
  /\ summary = NoSummary
  /\ series = << >>
  /\ lookback_in = DefaultLookback
  /\ outcome = Pending
  /\ first_outcome = Pending
  /\ cpc = "idle"

\* The delay is set back to its initial value when a symbol is taken up.
Lookup_ResetsDelay ==
  /\ pc = "lookup"
  /\ calls' = Append(calls, Call("get_symbol_token", i, 0, FALSE))
  /\ delay' = InitialDelay
  /\ IF Truthy(get_symbol_token(symbols[i]))
     THEN pc' = "fetch" /\ attempt' = 0
     ELSE pc' = "sleep" /\ attempt' = attempt
  /\ UNCHANGED clsvars
  /\ UNCHANGED <<summary, symbols, connector, i, breakout_stocks, data, df, result>>

\* symbol_token = instrument_manager.get_symbol_token(symbol); if symbol_token:
Lookup ==
  /\ pc = "lookup"
  /\ calls' = Append(calls, Call("get_symbol_token", i, 0, FALSE))
  /\ IF Truthy(get_symbol_token(symbols[i]))
     THEN pc' = "fetch" /\ attempt' = 0
     ELSE pc' = "sleep" /\ attempt' = attempt
  /\ UNCHANGED clsvars
  /\ UNCHANGED <<summary, symbols, connector, i, delay, breakout_stocks, data, df, result>>

\* The backoff sleep is made only when another attempt follows.
Attempt_NoSleepAfterLast ==
  /\ pc = "fetch"
  /\ \E resp \in ApiResponses :
       LET out == try_body(connector, resp, symbols[i], df)
       IN /\ data' = resp
          /\ df' = out.df
          /\ attempt' = attempt + 1
          /\ IF out.raised
             THEN /\ delay' = Backoff(delay)
                  /\ calls' = calls \o << Call("get_historical_data", i, 0, TRUE) >> \o
                                (IF MoreAttempts(attempt + 1)
                                 THEN << Call("backoff_sleep", i, Backoff(delay), FALSE) >>
                                 ELSE << >>)
                  /\ breakout_stocks' = breakout_stocks
                  /\ pc' = AfterFailure(attempt + 1)
             ELSE /\ delay' = delay
                  /\ calls' = Append(calls, Call("get_historical_data", i, 0, FALSE))
                  /\ breakout_stocks' = breakout_stocks \o out.appended
                  /\ pc' = "sleep"
  /\ UNCHANGED clsvars
  /\ UNCHANGED <<summary, symbols, connector, i, result>>

\* One iteration of the retry loop: the try body, then either `break` or the
\* except handler (delay *= 2; time.sleep(delay)) and the loop's next step.
Attempt ==
  /\ pc = "fetch"
  /\ \E resp \in ApiResponses :
       LET out == try_body(connector, resp, symbols[i], df)
       IN /\ data' = resp
          /\ df' = out.df
          /\ attempt' = attempt + 1
          /\ IF out.raised
             THEN /\ delay' = Backoff(delay)
                  /\ calls' = calls \o << Call("get_historical_data", i, 0, TRUE),
                                          Call("backoff_sleep", i, Backoff(delay), FALSE) >>
                  /\ breakout_stocks' = breakout_stocks
                  /\ pc' = AfterFailure(attempt + 1)
             ELSE /\ delay' = delay
                  /\ calls' = Append(calls, Call("get_historical_data", i, 0, FALSE))
                  /\ breakout_stocks' = breakout_stocks \o out.appended
                  /\ pc' = "sleep"
  /\ UNCHANGED clsvars
  /\ UNCHANGED <<summary, symbols, connector, i, result>>

\* The pause between symbols is skipped for a symbol without a token.
InterSymbolSleep_SkippedWithoutToken ==
  /\ pc = "sleep"
  /\ calls' = IF Truthy(get_symbol_token(symbols[i]))
              THEN Append(calls, Call("inter_symbol_sleep", i, delay, FALSE))
              ELSE calls
  /\ i' = i + 1
  /\ pc' = IF i < Len(symbols) THEN "lookup" ELSE "return"
  /\ data' = NoResponse
  /\ df' = Unbound
  /\ UNCHANGED clsvars
  /\ UNCHANGED <<summary, symbols, connector, attempt, delay, breakout_stocks, result>>

\* The scan gives up at the first symbol whose attempts are used up.
InterSymbolSleep_StopsAfterFailure ==
  /\ pc = "sleep"
  /\ calls' = Append(calls, Call("inter_symbol_sleep", i, delay, FALSE))
  /\ i' = i + 1
  /\ pc' = IF i < Len(symbols) /\ ~(Len(calls) > 0 /\ calls[Len(calls)].op = "backoff_sleep")
           THEN "lookup" ELSE "return"
  /\ data' = NoResponse
  /\ df' = Unbound
  /\ UNCHANGED clsvars
  /\ UNCHANGED <<summary, symbols, connector, attempt, delay, breakout_stocks, result>>

\* time.sleep(delay) at the end of the symbol's iteration, then the next
\* symbol.  The locals of the finished iteration are dead: they are written
\* before they are read again.
InterSymbolSleep ==
  /\ pc = "sleep"
  /\ calls' = Append(calls, Call("inter_symbol_sleep", i, delay, FALSE))
  /\ i' = i + 1
  /\ pc' = IF i < Len(symbols) THEN "lookup" ELSE "return"
  /\ data' = NoResponse
  /\ df' = Unbound
  /\ UNCHANGED clsvars
  /\ UNCHANGED <<summary, symbols, connector, attempt, delay, breakout_stocks, result>>

\* return breakout_stocks
Return ==
  /\ pc = "return"
  /\ result' = breakout_stocks
  /\ pc' = "done"
  /\ UNCHANGED clsvars
  /\ UNCHANGED <<summary, symbols, connector, i, attempt, delay, breakout_stocks, data, df, calls>>

\* main after the scan: the two groups whose sizes it logs.
Summary ==
  /\ pc = "done"
  /\ summary' = [full |-> full_breakouts(result), partial |-> partial_breakouts(result)]
  /\ pc' = "summarised"
  /\ UNCHANGED clsvars
  /\ UNCHANGED <<symbols, connector, i, attempt, delay, breakout_stocks, data, df, calls, result>>

Next == Lookup \/ Attempt \/ InterSymbolSleep \/ Return \/ Summary

Spec == Init /\ [][Next]_vars

\* The scan runs on one thread that nothing preempts: a step that can be
\* taken is taken.
FairSpec == Spec /\ WF_vars(Next)

(***************************************************************************)
(* identify_breakout called directly: a caller hands it any list of        *)
(* candles, in any order, and any positive lookback; the caller may then   *)
(* hand it the same candles in another order.                              *)
(***************************************************************************)
Shapes ==
  { [high |-> 1, low |-> 1, close |-> 1],
    [high |-> 2, low |-> 1, close |-> 2],
    [high |-> 3, low |-> 1, close |-> 2] }

Volumes == {1, 3}

Days == 1..3

Candles ==
  { Candle(t, sh.high, sh.low, sh.close, v) : t \in Days, sh \in Shapes, v \in Volumes }

SeriesInputs == UNION { [1..n -> Candles] : n \in 0..MaxCandles }

Lookbacks == 1..MaxCandles

\* The same rows in every other order.
Reorderings(rows) ==
  { [k \in 1..Len(rows) |-> rows[p[k]]] : p \in Permutations(1..Len(rows)) } \ {rows}

ClassifyInit ==
  /\ symbols = << >>
  /\ connector = "AngelOneConnector"
  /\ i = 1
  /\ pc = "idle"
  /\ attempt = 0
  /\ delay = InitialDelay
  /\ breakout_stocks = << >>
  /\ data = NoResponse
  /\ df = Unbound
  /\ calls = << >>
  /\ result = << >>
  /\ summary = NoSummary
  /\ series \in SeriesInputs
  /\ lookback_in \in Lookbacks
  /\ outcome = Pending
  /\ first_outcome = Pending
  /\ cpc = "call"

Classify_LookbackOne ==
  /\ cpc \in {"call", "call_again"}
  /\ outcome' = identify_breakout(series, 1)
  /\ cpc' = IF cpc = "call" THEN "returned" ELSE "returned_again"
  /\ UNCHANGED <<series, lookback_in, first_outcome>>
  /\ UNCHANGED scanvars

\* identify_breakout(df, symbol, lookback)
Classify ==
  /\ cpc \in {"call", "call_again"}
  /\ outcome' = identify_breakout(series, lookback_in)
  /\ cpc' = IF cpc = "call" THEN "returned" ELSE "returned_again"
  /\ UNCHANGED <<series, lookback_in, first_outcome>>
  /\ UNCHANGED scanvars

\* The caller keeps the first answer and reorders the rows for a second call.
Shuffle ==
  /\ cpc = "returned"
  /\ series' \in Reorderings(series)
  /\ first_outcome' = outcome
  /\ outcome' = Pending
  /\ cpc' = "call_again"
  /\ UNCHANGED lookback_in
  /\ UNCHANGED scanvars

ClassifyNext == Classify \/ Shuffle

ClassifySpec == ClassifyInit /\ [][ClassifyNext]_vars

TypeOK ==
  /\ pc \in {"lookup", "fetch", "sleep", "return", "done", "summarised"}
  /\ attempt \in 0..MaxAttempts
  /\ i \in 1..(Len(symbols) + 1)
  /\ delay >= InitialDelay

(***************************************************************************)
(* Reading the sequence of calls                                           *)
(***************************************************************************)
IsFetch(c) == c.op = "get_historical_data"

IsSleep(c) == c.op \in {"backoff_sleep", "inter_symbol_sleep"}

\* The fetch calls made for the symbol at position p, in order.
FetchesOf(log, p) == SelectSeq(log, LAMBDA c : c.pos = p /\ IsFetch(c))

\* The sleeps made while the symbol at position p was being processed.
SleepsOf(log, p) == SelectSeq(log, LAMBDA c : c.pos = p /\ IsSleep(c))

Durations(log) == [k \in 1..Len(log) |-> log[k].arg]

\* No attempt failed for a symbol before position p: delay is still 1 there.
NoFailureBefore(log, p) == \A k \in 1..Len(log) : log[k].pos < p => ~log[k].raised

\* Every attempt made so far for position p failed, and there were n of them.
FailedAttempts(log, p, n) ==
  LET f == FetchesOf(log, p)
  IN Len(f) = n /\ \A k \in 1..n : f[k].raised

\* This step is an attempt that raised / that completed.
RaisedStep == pc = "fetch" /\ Len(calls') > Len(calls) /\ calls'[Len(calls) + 1].raised

CompletedStep == pc = "fetch" /\ Len(calls') > Len(calls) /\ ~calls'[Len(calls) + 1].raised

(***************************************************************************)
(* C1 (as stated): two failures then a success, delay 1 at the start of    *)
(* the symbol: the sleeps before the third attempt are 1 then 2, and what  *)
(* is recorded is the verdict of the third response.                       *)
(***************************************************************************)
C1_Scenario(sleeps) ==
  (CompletedStep /\ FailedAttempts(calls, i, 2) /\ NoFailureBefore(calls, i))
  => /\ Durations(SleepsOf(calls, i)) = sleeps
     /\ breakout_stocks' = breakout_stocks \o
          (IF HasData(df')
           THEN Appended(symbols[i], identify_breakout(data'.rows, DefaultLookback))
           ELSE << >>)

C1_SleepsOneThenTwo == [][C1_Scenario(<< 1, 2 >>)]_vars

\* C1 (amended): in that scenario exactly two backoff sleeps precede the
\* successful third attempt, of 2 and then 4 time units (the delay is doubled
\* before each sleep), and the verdict recorded is the one computed from the
\* third attempt's response.
C1_SleepsTwoThenFour == [][C1_Scenario(<< 2, 4 >>)]_vars

C1_Witness ==
  /\ pc = "sleep"
  /\ LET f == FetchesOf(calls, i)
     IN Len(f) = 3 /\ f[1].raised /\ f[2].raised /\ ~f[3].raised
  /\ NoFailureBefore(calls, i)
  /\ HasData(df)
  /\ Len(breakout_stocks) = 1

(***************************************************************************)
(* C2: with AngelOneConnector.get_historical_data as the fetcher, an       *)
(* attempt whose API call raised or answered with a malformed payload is   *)
(* followed by a backoff (delay doubled, one sleep) and, while the budget  *)
(* of 3 attempts lasts, by another attempt for the same symbol.            *)
(***************************************************************************)
C2_TransientFailureRetried ==
  [][ (pc = "fetch" /\ attempt' = attempt + 1 /\ connector = "AngelOneConnector"
       /\ data'.kind \in TransientFailures)
      => /\ delay' = Backoff(delay)
         /\ Len(calls') = Len(calls) + 2
         /\ calls'[Len(calls')] = Call("backoff_sleep", i, delay', FALSE)
         /\ (MoreAttempts(attempt') => pc' = "fetch" /\ i' = i) ]_vars

(***************************************************************************)
(* C3: when all 3 attempts for a symbol raise, no record is appended for   *)
(* it, the exception goes no further (control reaches the sleep that ends  *)
(* the symbol's iteration) and the scan takes up the next symbol.          *)
(***************************************************************************)
C3_ExhaustedSymbolSkipped ==
  [][ /\ RaisedStep => breakout_stocks' = breakout_stocks
      /\ (RaisedStep /\ FailedAttempts(calls, i, MaxAttempts - 1))
           => pc' = "sleep" /\ i' = i
      /\ (pc = "sleep" /\ FailedAttempts(calls, i, MaxAttempts))
           => /\ breakout_stocks' = breakout_stocks
              /\ i' = i + 1
              /\ pc' = IF i < Len(symbols) THEN "lookup" ELSE "return" ]_vars

C3_Witness ==
  /\ pc = "lookup"
  /\ i = 2
  /\ FailedAttempts(calls, 1, MaxAttempts)
  /\ breakout_stocks = << >>

(***************************************************************************)
(* C4: for every position of the symbol list at most 3 fetch calls are     *)
(* made, none when the symbol has no token, and none after an attempt for  *)
(* that position completed without an exception.                           *)
(***************************************************************************)
C4_FetchBudget ==
  \A p \in 1..Len(symbols) :
    LET f == FetchesOf(calls, p)
    IN /\ Len(f) <= 3
       /\ (get_symbol_token(symbols[p]) = None => Len(f) = 0)
       /\ \A k \in 1..Len(f) : ~f[k].raised => k = Len(f)

C4_Witness ==
  /\ pc = "done"
  /\ \E p, q \in 1..Len(symbols) :
       /\ Len(FetchesOf(calls, p)) = 3
       /\ get_symbol_token(symbols[q]) = None

(***************************************************************************)
(* C5: the delay starts at 1, a step that catches a failure doubles it,    *)
(* and every other step (a completed attempt, a lookup, the move to the    *)
(* next symbol) leaves it as it is: it is never reset and never shrinks.   *)
(***************************************************************************)
C5_DelayOnlyDoubles ==
  [][ /\ (calls = << >> => delay = 1)
      /\ delay' = IF RaisedStep THEN 2 * delay ELSE delay
      /\ delay' >= delay ]_vars

C5_Witness ==
  /\ pc = "fetch"
  /\ i = 2
  /\ attempt = 0
  /\ delay = 8

(***************************************************************************)
(* C6: an attempt whose fetch returned None or an empty frame ends the     *)
(* symbol without a failure: no record, the delay unchanged, no backoff    *)
(* sleep (the only call added is the fetch itself), and the next step      *)
(* is the inter-symbol sleep and the move to the next symbol.              *)
(***************************************************************************)
NoData(frame) == frame.kind = "None" \/ (frame.kind = "DataFrame" /\ frame.rows = << >>)

C6_NoDataIsNotAFailure ==
  [][ /\ (pc = "fetch" /\ attempt' = attempt + 1 /\ NoData(df'))
           => /\ pc' = "sleep"
              /\ breakout_stocks' = breakout_stocks
              /\ delay' = delay
              /\ calls' = Append(calls, Call("get_historical_data", i, 0, FALSE))
      /\ (pc = "sleep" /\ NoData(df))
           => /\ i' = i + 1
              /\ calls' = Append(calls, Call("inter_symbol_sleep", i, delay, FALSE))
              /\ delay' = delay
              /\ breakout_stocks' = breakout_stocks ]_vars

C6_Witness ==
  /\ pc = "sleep"
  /\ df = NoFrame
  /\ data = [kind |-> "list", rows |-> << >>]
  /\ Len(FetchesOf(calls, i)) = 1
  /\ delay = 1
  /\ breakout_stocks = << >>

(***************************************************************************)
(* C7: for a symbol without a token the fetcher is never called, nothing   *)
(* is appended, the delay is unchanged, the inter-symbol sleep is made and *)
(* the scan goes on with the next symbol.                                  *)
(***************************************************************************)
C7_UnresolvedSymbolSkipped ==
  [][ /\ (pc = "lookup" /\ get_symbol_token(symbols[i]) = None)
           => /\ pc' = "sleep"
              /\ calls' = Append(calls, Call("get_symbol_token", i, 0, FALSE))
              /\ breakout_stocks' = breakout_stocks
              /\ delay' = delay
      /\ (pc = "sleep" /\ get_symbol_token(symbols[i]) = None)
           => /\ calls' = Append(calls, Call("inter_symbol_sleep", i, delay, FALSE))
              /\ FetchesOf(calls', i) = << >>
              /\ breakout_stocks' = breakout_stocks
              /\ delay' = delay
              /\ i' = i + 1
              /\ pc' = IF i < Len(symbols) THEN "lookup" ELSE "return" ]_vars

C7_Witness ==
  /\ pc = "lookup"
  /\ i = 2
  /\ get_symbol_token(symbols[1]) = None
  /\ calls[Len(calls)] = Call("inter_symbol_sleep", 1, 1, FALSE)

(***************************************************************************)
(* C8: whatever a symbol's outcome, exactly one inter-symbol sleep is made *)
(* for it, as the last call of its iteration and right before the lookup   *)
(* of the next symbol, and it lasts the delay of that moment.              *)
(***************************************************************************)
InterSleepsOf(log, p) == SelectSeq(log, LAMBDA c : c.pos = p /\ c.op = "inter_symbol_sleep")

OneSleepPerSymbol(log, at) ==
  /\ \A p \in 1..Len(symbols) : Len(InterSleepsOf(log, p)) = IF p < at THEN 1 ELSE 0
  /\ \A k \in 1..Len(log) :
       /\ (log[k].op = "get_symbol_token" /\ log[k].pos > 1)
            => log[k - 1].op = "inter_symbol_sleep" /\ log[k - 1].pos = log[k].pos - 1
       /\ (log[k].op = "inter_symbol_sleep" /\ k < Len(log))
            => log[k + 1].op = "get_symbol_token" /\ log[k + 1].pos = log[k].pos + 1

C8_OneInterSymbolSleep ==
  [][ /\ OneSleepPerSymbol(calls', i')
      /\ (Len(calls') > Len(calls) /\ calls'[Len(calls')].op = "inter_symbol_sleep")
           => calls'[Len(calls')].arg = delay /\ delay' = delay ]_vars

C8_Witness ==
  /\ pc = "done"
  /\ Len(symbols) = 2
  /\ get_symbol_token(symbols[1]) = None
  /\ Durations(InterSleepsOf(calls, 1) \o InterSleepsOf(calls, 2)) = << 1, 8 >>

(***************************************************************************)
(* C9: every record of breakout_stocks, and so of the returned list, has   *)
(* one of the three breakout categories; an attempt whose series is        *)
(* classified No Breakout or Insufficient Data appends nothing.            *)
(***************************************************************************)
BreakoutCategories ==
  {"Full Breakout", "Partial Breakout - Low Volume", "Partial Breakout - Small Size"}

OnlyBreakouts(records) ==
  \A k \in 1..Len(records) : records[k].breakout_type \in BreakoutCategories

C9_OnlyBreakoutsKept ==
  [][ /\ OnlyBreakouts(breakout_stocks')
      /\ OnlyBreakouts(result')
      /\ (CompletedStep /\ HasData(df')
          /\ identify_breakout(df'.rows, DefaultLookback).breakout_type
               \in {"No Breakout", "Insufficient Data"})
           => breakout_stocks' = breakout_stocks ]_vars

C9_Witness ==
  /\ pc = "sleep"
  /\ i = 2
  /\ HasData(df)
  /\ identify_breakout(df.rows, DefaultLookback).breakout_type = "No Breakout"
  /\ Len(breakout_stocks) = 1

(***************************************************************************)
(* C10: the scan terminates with a result, having looked up every symbol   *)
(* of the list once and in input order, whatever the lookups and fetches   *)
(* answered.                                                               *)
(***************************************************************************)
Positions(log) == [k \in 1..Len(log) |-> log[k].pos]

VisitedInOrder ==
  Positions(SelectSeq(calls, LAMBDA c : c.op = "get_symbol_token"))
    = [k \in 1..Len(symbols) |-> k]

C10_ScanTerminates == <>(pc = "done" /\ VisitedInOrder /\ result = breakout_stocks)

C10_Witness ==
  /\ pc = "done"
  /\ Len(symbols) = 2
  /\ FailedAttempts(calls, 1, MaxAttempts)
  /\ Len(result) = 1

(***************************************************************************)
(* Claims about identify_breakout, checked under ClassifySpec              *)
(***************************************************************************)
HasReturned == cpc \in {"returned", "returned_again"}

\* C11: for every positive lookback and every series with fewer than lookback
\* candles, identify_breakout returns (False, "Insufficient Data", {}),
\* whatever the prices and volumes.
C11_InsufficientData ==
  (HasReturned /\ Len(series) < lookback_in)
    => outcome = Returned(FALSE, "Insufficient Data", NoDetails)

\* Two candles that would be a breakout, asked for with a lookback of three.
C11_Witness ==
  /\ cpc = "returned"
  /\ Len(series) = 2
  /\ lookback_in = 3
  /\ series[1].timestamp < series[2].timestamp
  /\ series[2].close > series[1].high
  /\ outcome.breakout_type = "Insufficient Data"

\* The rows as identify_breakout sees them after line 169.
Sorted == sort_values(series)

LastClose == Sorted[Len(Sorted)].close

PreviousHigh == rolling_max_high(Sorted, Len(Sorted) - 1, lookback_in)

\* C12: for every positive lookback and every series with at least lookback
\* candles, if there is no second-to-last candle or the last close is less
\* than or equal to previous_high, identify_breakout returns
\* (False, "No Breakout", {}).
C12_NoBreakout ==
  (/\ HasReturned
   /\ Len(series) >= lookback_in
   /\ (Len(series) < 2 \/ LastClose <= PreviousHigh))
    => outcome = Returned(FALSE, "No Breakout", NoDetails)

\* The series reaches the comparison of line 177 with a close above previous_high.
Candidate ==
  /\ HasReturned
  /\ Len(series) >= lookback_in
  /\ Len(series) >= 2
  /\ LastClose > PreviousHigh

BreakoutSize == LastClose - PreviousHigh

Atr == rolling_mean_tr(Sorted)

CurrentVolume == Sorted[Len(Sorted)].volume

AvgVolume == rolling_mean_volume(Sorted, lookback_in)

\* breakout_size <= atr, on the fraction num/den
SizeAtMostAtr == BreakoutSize * Atr.den <= Atr.num

\* current_volume <= 1.5 * avg_volume, on the fraction num/den
VolumeAtMostThreshold == 2 * CurrentVolume * AvgVolume.den <= 3 * AvgVolume.num

\* C13: when the last close exceeds previous_high the category follows the
\* ordered decision: breakout_size <= atr gives "Partial Breakout - Small Size"
\* (equality included, whatever the volume); otherwise current_volume <=
\* 1.5 * avg_volume gives "Partial Breakout - Low Volume" (equality included);
\* otherwise "Full Breakout".
C13_OrderedDecision ==
  Candidate =>
    /\ ~outcome.raised
    /\ outcome.breakout_type =
         IF SizeAtMostAtr THEN "Partial Breakout - Small Size"
         ELSE IF VolumeAtMostThreshold THEN "Partial Breakout - Low Volume"
         ELSE "Full Breakout"

\* breakout_size exactly equal to atr with a volume well above the threshold.
C13_Witness ==
  /\ Candidate
  /\ BreakoutSize * Atr.den = Atr.num
  /\ ~VolumeAtMostThreshold
  /\ outcome.breakout_type = "Partial Breakout - Small Size"

MetricKeys ==
  {"current_close", "previous_high", "breakout_size", "atr", "current_volume", "avg_volume"}

\* C14: for every result of identify_breakout, is_breakout is true exactly
\* when the category is one of the three breakout categories and exactly when
\* the metrics hold the six keys; for "No Breakout" and "Insufficient Data"
\* is_breakout is false and the metrics are empty.
C14_FlagCategoryMetricsAgree ==
  (HasReturned /\ ~outcome.raised) =>
    /\ outcome.breakout_type \in BreakoutCategories \cup {"No Breakout", "Insufficient Data"}
    /\ outcome.is_breakout <=> outcome.breakout_type \in BreakoutCategories
    /\ outcome.is_breakout <=> DOMAIN outcome.details = MetricKeys
    /\ ~outcome.is_breakout => DOMAIN outcome.details = {}

\* A full breakout returned with its six metrics.
C14_Witness ==
  /\ Candidate
  /\ ~outcome.raised
  /\ outcome.is_breakout
  /\ outcome.breakout_type = "Full Breakout"
  /\ DOMAIN outcome.details = MetricKeys

DistinctTimestamps ==
  \A j, k \in 1..Len(series) : j # k => series[j].timestamp # series[k].timestamp

\* C15: for every candle series and every permutation of its candles,
\* identify_breakout returns the same verdict (is_breakout, category and
\* metrics) for the series and for the permuted series.
C15_PermutationInvariant ==
  cpc = "returned_again" => outcome = first_outcome

\* C15 (amended): the same, for series whose timestamps are pairwise distinct.
C15_PermutationInvariantDistinct ==
  (cpc = "returned_again" /\ DistinctTimestamps) => outcome = first_outcome

\* Three candles of distinct days, handed over out of order, classified twice
\* as the same full breakout.
C15_Witness ==
  /\ cpc = "returned_again"
  /\ DistinctTimestamps
  /\ Len(series) = 3
  /\ series # Sorted
  /\ outcome = first_outcome
  /\ outcome.breakout_type = "Full Breakout"

\* The true range the claim gives candle k: high - low for the first candle.
ClaimedTrueRange(k) ==
  IF k = 1 THEN Sorted[1].high - Sorted[1].low ELSE true_range(Sorted, k).val

\* The mean of the claimed true ranges of the last min(14, n) candles.
ClaimedAtr ==
  LET n == Len(Sorted)
      lo == Max(1, n - ATRWindow + 1)
      tr == [k \in 1..n |-> ClaimedTrueRange(k)]
  IN [num |-> SumRange(tr, lo, n), den |-> n - lo + 1]

\* C17: the first candle's true range is high - low and enters the ATR like
\* any other: the ATR at the last position is the mean of the true ranges of
\* the last min(14, n) candles, the first candle's high - low included when
\* n <= 14.
C17_AtrIncludesFirstCandle ==
  Candidate =>
    /\ ~outcome.raised
    /\ ~outcome.details.atr.nan
    /\ outcome.details.atr.num * ClaimedAtr.den = ClaimedAtr.num * outcome.details.atr.den

\* The highs of the up-to-lookback candles ending at the second-to-last one.
WindowHighs ==
  LET n == Len(Sorted)
  IN { Sorted[k].high : k \in Max(1, n - lookback_in)..(n - 1) }

AboveWindow == \A h \in WindowHighs : LastClose > h

\* C18: previous_high is the maximum of the highs of the up-to-lookback
\* candles ending at the second-to-last candle in timestamp order; the last
\* candle's own high never contributes, so a last close above every earlier
\* high in that window is a breakout candidate even when the last high is
\* higher still.
C18_PreviousHighExcludesLast ==
  (HasReturned /\ Len(series) >= lookback_in /\ Len(series) >= 2) =>
    /\ ~outcome.raised
    /\ outcome.is_breakout <=> AboveWindow
    /\ outcome.is_breakout =>
         /\ outcome.details.previous_high \in WindowHighs
         /\ \A h \in WindowHighs : h <= outcome.details.previous_high

\* The last candle's high is above its own close, which is above the one high
\* in the window but not above the high before it: a breakout with
\* previous_high below the last high.
C18_Witness ==
  /\ HasReturned
  /\ Len(series) = 3
  /\ lookback_in = 1
  /\ AboveWindow
  /\ Sorted[3].high > LastClose
  /\ Sorted[1].high >= LastClose
  /\ outcome.is_breakout
  /\ outcome.details.previous_high < Sorted[3].high

(***************************************************************************)
(* Claims about the scan and its summary, checked under Spec               *)
(***************************************************************************)
Range(seq) == { seq[k] : k \in 1..Len(seq) }

InFull(stock) == \E k \in 1..Len(summary.full) : summary.full[k] = stock

InPartial(stock) == \E k \in 1..Len(summary.partial) : summary.partial[k] = stock

\* C16: the summary partitions the output of scan_for_breakouts: the full
\* group (category "Full Breakout") and the partial group (category starting
\* with "Partial Breakout") are disjoint, every returned record is in exactly
\* one of them, and the two counts add up to the length of the output.
C16_SummaryPartitions ==
  pc = "summarised" =>
    /\ \A k \in 1..Len(summary.full) : summary.full[k].breakout_type = "Full Breakout"
    /\ \A k \in 1..Len(summary.partial) :
         summary.partial[k].breakout_type
           \in {"Partial Breakout - Low Volume", "Partial Breakout - Small Size"}
    /\ Range(summary.full) \cap Range(summary.partial) = {}
    /\ \A k \in 1..Len(result) : InFull(result[k]) # InPartial(result[k])
    /\ Len(summary.full) + Len(summary.partial) = Len(result)

\* A scan that returned one full and one partial breakout, summarised.
C16_Witness ==
  /\ pc = "summarised"
  /\ Len(result) = 2
  /\ Len(summary.full) = 1
  /\ Len(summary.partial) = 1

\* The exceptions caught in the calls of log.
Caught(log) == Cardinality({ k \in 1..Len(log) : log[k].raised })

RECURSIVE Pow2(_)
Pow2(n) == IF n = 0 THEN 1 ELSE 2 * Pow2(n - 1)

\* C19: at every point of a scan the delay is 2 to the power of the number of
\* exceptions caught so far; every caught exception, the one of a symbol's
\* third attempt included, is immediately followed by one backoff sleep of
\* the already-doubled delay; and when the scan has returned the number of
\* sleeps is the number of symbols plus the number of caught exceptions.
C19_DelayAndSleepAccounting ==
  /\ delay = Pow2(Caught(calls))
  /\ \A k \in 1..Len(calls) :
       /\ calls[k].raised =>
            /\ k < Len(calls)
            /\ calls[k + 1] =
                 Call("backoff_sleep", calls[k].pos, Pow2(Caught(SubSeq(calls, 1, k))), FALSE)
       /\ calls[k].op = "backoff_sleep" => k > 1 /\ calls[k - 1].raised
  /\ pc \in {"done", "summarised"} =>
       Len(SelectSeq(calls, IsSleep)) = Len(symbols) + Caught(calls)

\* A returned scan of two symbols: three failed attempts for the first, one
\* failure and a completed attempt for the second, six sleeps in all.
C19_Witness ==
  /\ pc = "done"
  /\ Len(symbols) = 2
  /\ FailedAttempts(calls, 1, MaxAttempts)
  /\ Caught(calls) = 4
  /\ delay = 16
  /\ Len(SelectSeq(calls, IsSleep)) = 6

\* names is an order-preserving subsequence of list.
RECURSIVE Embeds(_, _)
Embeds(names, list) ==
  IF names = << >> THEN TRUE
  ELSE IF list = << >> THEN FALSE
  ELSE IF Head(names) = Head(list) THEN Embeds(Tail(names), Tail(list))
  ELSE Embeds(names, Tail(list))

SymbolsOf(records) == [k \in 1..Len(records) |-> records[k].symbol]

\* The positions whose attempt completed without an exception, in call order.
CompletedPositions(log) == Positions(SelectSeq(log, LAMBDA c : IsFetch(c) /\ ~c.raised))

StrictlyIncreasing(seq) == \A j, k \in 1..Len(seq) : j < k => seq[j] < seq[k]

\* C20: at most one record is appended per position of the symbol list, only
\* in an attempt that raised no exception and that is the last attempt for
\* that symbol; the symbols of the returned sequence form an order-preserving
\* subsequence of the input list, and a retried symbol yields no duplicate
\* and no partial record.
C20_OneRecordPerCompletedAttempt ==
  [][ /\ breakout_stocks' # breakout_stocks =>
           /\ CompletedStep
           /\ pc' = "sleep" /\ i' = i
           /\ HasData(df')
           /\ LET v == identify_breakout(df'.rows, DefaultLookback)
              IN breakout_stocks' =
                   Append(breakout_stocks, BreakoutRecord(symbols[i], v.breakout_type, v.details))
           /\ DOMAIN breakout_stocks'[Len(breakout_stocks')]
                = MetricKeys \cup {"symbol", "breakout_type"}
      /\ CompletedStep => pc' = "sleep"
      /\ StrictlyIncreasing(CompletedPositions(calls'))
      /\ Len(breakout_stocks') <= Len(CompletedPositions(calls'))
      /\ Embeds(SymbolsOf(breakout_stocks'),
                [k \in 1..Len(CompletedPositions(calls')) |-> symbols[CompletedPositions(calls')[k]]])
      /\ Embeds(SymbolsOf(result'), symbols)
      /\ pc' = "done" => result' = breakout_stocks' ]_vars

\* A returned scan of two symbols with a record for each, the first symbol's
\* record coming from a retry after a failed attempt.
C20_Witness ==
  /\ pc = "done"
  /\ Len(symbols) = 2
  /\ LET f == FetchesOf(calls, 1)
     IN Len(f) = 2 /\ f[1].raised /\ ~f[2].raised
  /\ SymbolsOf(result) = symbols

=============================================================================
